---------------------------- MODULE Spec2Model ----------------------------
(***************************************************************************)
(* A state-machine model of NodeExecutor (src/NodeExecutor.py): the script *)
(* that executes the maneuver nodes of the active vessel through kRPC.     *)
(*                                                                         *)
(* The program counter pc walks through execute_node() statement by        *)
(* statement; every remote call is one step, so that the vessel (thrust,   *)
(* attitude error, remaining delta-v, the link itself) may change between  *)
(* any two of them.  Real quantities are exact rationals <<n, d>>.         *)
(***************************************************************************)
EXTENDS Integers, Sequences, FiniteSets, TLC

\* ------------------------------------------------------------ bounds
\* Longest node queue the vessel starts with.
MaxNodes == 2
\* Stages the vessel still carries at most.
MaxStages == 1
\* Ghost counters saturate here.
MaxCount == 4
\* The "small constant" of extra iterations a finished burn may take.
Epsilon == 2
\* Nodes a planner adds at most while the executor runs.
MaxPlans == 1

\* --------------------------------------------------- program constants
AbortThreshold == 20
CoarseMargin == 180
FineMargin == 5
DefaultMinimumBurnTime == 4
\* Values of the test corpus (src/test_NodeExecutor.py, setUp).
Isp0 == 200
Mass == 30
NodeUt == 2000

\* ------------------------------------------------------------ input sets
ThrustValues == {0, 50, 90, 100}
\* Before the burn the engines are off or the first stage is whole.
StartThrusts == {0, 100}
IspValues == {0, Isp0}
ErrorValues == {0, 20, 25}
NodeDvValues == {0, 10}
MinimumBurnTimes == {0, DefaultMinimumBurnTime}
\* The clock when execute_node is called: 182 s before the node (the coarse
\* warp target itself when burn_time is 4 s, short of it otherwise), or
\* after the node.
StartUts == {1818, 2100}
\* Seconds the clock may advance while the program sleeps.
SleepSteps == {5}

\* ------------------------------------------------------------ rationals
Abs(x) == IF x < 0 THEN -x ELSE x

\* The functions below take their arguments as values, evaluated once.
GCDF[p \in Nat \X Nat] ==
    IF p[2] = 0 THEN p[1] ELSE GCDF[<< p[2], p[1] % p[2] >>]

GCD(a, b) == GCDF[<< a, b >>]

RatF[p \in Int \X Int] ==
    LET g == GCD(Abs(p[1]), Abs(p[2]))
        s == IF p[2] < 0 THEN -1 ELSE 1
    IN  << (s * p[1]) \div g, (s * p[2]) \div g >>

\* The rational n/d in lowest terms with a positive denominator (d # 0).
Rat(n, d) == RatF[<< n, d >>]

R(n) == << n, 1 >>
RatPairs == (Int \X Int) \X (Int \X Int)
RAddF[p \in RatPairs] ==
    Rat(p[1][1] * p[2][2] + p[2][1] * p[1][2], p[1][2] * p[2][2])
RSubF[p \in RatPairs] ==
    Rat(p[1][1] * p[2][2] - p[2][1] * p[1][2], p[1][2] * p[2][2])
RMulF[p \in RatPairs] == Rat(p[1][1] * p[2][1], p[1][2] * p[2][2])
RDivF[p \in RatPairs] == Rat(p[1][1] * p[2][2], p[1][2] * p[2][1])
RAdd(a, b) == RAddF[<< a, b >>]
RSub(a, b) == RSubF[<< a, b >>]
RMul(a, b) == RMulF[<< a, b >>]
\* Only applied where b # 0: the callers model Python's ZeroDivisionError.
RDiv(a, b) == RDivF[<< a, b >>]
\* a < b, comparing the whole parts first so that the products stay small.
RLt(a, b) ==
    LET qa == a[1] \div a[2]
        qb == b[1] \div b[2]
    IN  IF qa # qb THEN qa < qb
        ELSE (a[1] % a[2]) * b[2] < (b[1] % b[2]) * a[2]
RLe(a, b) == ~RLt(b, a)
RMin(a, b) == IF RLe(a, b) THEN a ELSE b
RMax(a, b) == IF RLe(b, a) THEN a ELSE b
RIsZero(a) == a[1] = 0

\* A Python value or the exception its evaluation raised.
Ok(v) == [err |-> "none", val |-> v]
Raised(e) == [err |-> e, val |-> R(0)]

VARIABLES
    \* --- the vessel and the game, as seen through kRPC
    nodes,          \* vessel.control.nodes: sequence of [id, ut, delta_v]
    ut,             \* space_center.ut (rational)
    thrust,         \* vessel.available_thrust
    isp,            \* vessel.specific_impulse
    error,          \* vessel.auto_pilot.error (degrees)
    dvLeft,         \* nodes[0].remaining_delta_v
    throttle,       \* vessel.control.throttle (rational)
    apEngaged,      \* the autopilot holds attitude
    apTarget,       \* <<reference_frame, target_direction, target_roll>>
    stagesLeft,     \* stages activate_next_stage() can still fire
    errStream,      \* the stream of auto_pilot.error
    dvStream,       \* the stream of node.remaining_delta_v
    \* --- the program
    pc,             \* the statement about to run
    minimumBurnTime,
    marginIdx,      \* index into approach_margins
    utThreshold,    \* wait_until_ut's argument
    availableThrust,\* _burn_loop's local available_thrust
    oldThrottle,    \* _auto_stage's local old_throttle
    exc,            \* the exception in flight ("none": none)
    \* --- history (ghost) variables
    hist

vars == << nodes, ut, thrust, isp, error, dvLeft, throttle, apEngaged,
           apTarget, stagesLeft, errStream, dvStream, pc, minimumBurnTime,
           marginIdx, utThreshold, availableThrust, oldThrottle, exc, hist >>

\* ------------------------------------------------------ the properties
\* has_node (lines 88-91): node (lines 80-86) is nodes[0], or None.
has_node == nodes # << >>

\* math.exp, by its first-order expansion 1 + x: equal to 1 at 0 and strictly
\* increasing for x >= 0, which is all the program's arithmetic relies on.
exp(x) == RAdd(R(1), x)

\* A faulty burn_time_at_max_thrust: the burnt mass times the flow rate.
BurnTimeAtMaxThrustTimesFlow(F, Isp_s, m0, dv) ==
    IF Isp_s = 0 THEN Raised("ZeroDivisionError")
    ELSE LET Isp == RMul(R(Isp_s), Rat(491, 50))
             m1 == RDiv(R(m0), exp(RDiv(R(dv), Isp)))
             flow_rate == RDiv(R(F), Isp)
         IN  IF RIsZero(flow_rate) THEN Raised("ZeroDivisionError")
             ELSE Ok(RMul(RSub(R(m0), m1), flow_rate))

\* burn_time_at_max_thrust (lines 98-106) on its four readings; the g0 factor
\* 9.82 is 491/50.  Python raises on delta_v/Isp first, then on the flow rate.
BurnTimeAtMaxThrust(F, Isp_s, m0, dv) ==
    IF Isp_s = 0 THEN Raised("ZeroDivisionError")
    ELSE LET Isp == RMul(R(Isp_s), Rat(491, 50))
             m1 == RDiv(R(m0), exp(RDiv(R(dv), Isp)))
             flow_rate == RDiv(R(F), Isp)
         IN  IF RIsZero(flow_rate) THEN Raised("ZeroDivisionError")
             ELSE Ok(RDiv(RSub(R(m0), m1), flow_rate))

\* self.delta_v (lines 93-96): None has no delta_v.
delta_v ==
    IF has_node THEN Ok(R(nodes[1].delta_v)) ELSE Raised("AttributeError")

burn_time_at_max_thrust ==
    IF delta_v.err # "none" THEN delta_v
    ELSE BurnTimeAtMaxThrust(thrust, isp, Mass, nodes[1].delta_v)

\* A faulty maximum_throttle: the cap at 1 left out.
MaximumThrottleUncapped(bt, mbt) ==
    IF mbt = 0 THEN Ok(R(1))
    ELSE IF bt.err # "none" THEN bt
    ELSE Ok(RDiv(bt.val, R(mbt)))

\* maximum_throttle (lines 108-113).
MaximumThrottle(bt, mbt) ==
    IF mbt = 0 THEN Ok(R(1))
    ELSE IF bt.err # "none" THEN bt
    ELSE Ok(RMin(R(1), RDiv(bt.val, R(mbt))))

maximum_throttle == MaximumThrottle(burn_time_at_max_thrust, minimumBurnTime)

\* burn_time (lines 115-118).
BurnTime(bt, mbt) ==
    IF bt.err # "none" THEN bt ELSE Ok(RMax(bt.val, R(mbt)))

burn_time == BurnTime(burn_time_at_max_thrust, minimumBurnTime)

\* A faulty burn_ut: the whole of burn_time before the node.
burn_ut_whole ==
    IF ~has_node THEN Raised("AttributeError")
    ELSE IF burn_time.err # "none" THEN burn_time
    ELSE Ok(RSub(R(nodes[1].ut), burn_time.val))

\* burn_ut (lines 120-123): self.node.ut is read first.
burn_ut ==
    IF ~has_node THEN Raised("AttributeError")
    ELSE IF burn_time.err # "none" THEN burn_time
    ELSE Ok(RSub(R(nodes[1].ut), RDiv(burn_time.val, R(2))))

\* _clamp (lines 151-155).
clamp(value, floor, ceiling) ==
    LET top == RMax(ceiling, floor)
        bottom == RMin(ceiling, floor)
    IN  RMax(bottom, RMin(top, value))

\* A faulty taper: the factor 10 left out.
TaperNoGain(dV_ratio) == clamp(dV_ratio, Rat(5, 100), R(1))

\* A faulty taper: the clamp left out.
TaperUnclamped(dV_ratio) == RMul(dV_ratio, R(10))

\* The taper of _throttle_manager (lines 159-161) on the ratio dV_left/delta_v.
Taper(dV_ratio) == clamp(RMul(dV_ratio, R(10)), Rat(5, 100), R(1))

\* The value _throttle_manager (lines 157-164) writes to the throttle.
ThrottleCommand(dV_left) ==
    IF delta_v.err # "none" THEN delta_v
    ELSE IF RIsZero(delta_v.val) THEN Raised("ZeroDivisionError")
    ELSE IF maximum_throttle.err # "none" THEN maximum_throttle
    ELSE Ok(RMul(maximum_throttle.val, Taper(RDiv(dV_left, delta_v.val))))

\* A faulty _is_burn_complete: the comparison the wrong way round.
is_burn_complete_reversed(e) == e < AbortThreshold

\* A faulty _is_burn_complete: an error of exactly 20 degrees ends the burn.
is_burn_complete_or_equal(e) == e >= AbortThreshold

\* _is_burn_complete (lines 203-205).
is_burn_complete(e) == e > AbortThreshold

\* A faulty comparison for _auto_stage: a drop of exactly a tenth stages.
ThrustRatioLowOrEqual(current, old_thrust) ==
    IF old_thrust = 0 THEN FALSE ELSE 10 * current <= 9 * old_thrust

\* The comparison of _auto_stage (lines 177-181): the ratio is 1 when the
\* division raises ZeroDivisionError.
ThrustRatioLow(current, old_thrust) ==
    IF old_thrust = 0 THEN FALSE ELSE 10 * current < 9 * old_thrust

\* Faulty margins: the fine one first.
approach_margins_swapped == << FineMargin, CoarseMargin >>

\* approach_margins (line 77).
approach_margins == << CoarseMargin, FineMargin >>

\* The _print_burn_event (lines 166-173) and the align message (line 127)
\* read self.node.ut, then space_center.ut.
NodeUtRead == IF has_node THEN "none" ELSE "AttributeError"

\* A remote call succeeds or fails with the link's error.
LinkErrs == {"none", "RPCError"}

\* The first exception of a sequence of evaluations.
FirstErr(e1, e2) == IF e1 # "none" THEN e1 ELSE e2

\* ------------------------------------------------------------ the state
envVars == << nodes, ut, thrust, isp, error, dvLeft, stagesLeft >>
actuators == << throttle, apEngaged, apTarget >>
streams == << errStream, dvStream >>
locals == << minimumBurnTime, marginIdx, utThreshold, availableThrust,
             oldThrottle >>

Min(a, b) == IF a < b THEN a ELSE b
Bump(n) == Min(n + 1, MaxCount)

\* The queue the vessel starts with: n nodes in time order.  Only the last
\* one may be a zero node: execute_node() raises on a zero node (its burn
\* divides by delta_v), so the program never reaches a node behind one.
NodeQueues ==
    UNION { { [k \in 1..n |->
                 [id |-> k, ut |-> NodeUt + 1000 * (k - 1),
                  delta_v |-> IF k = n THEN last ELSE 10]]
              : last \in NodeDvValues }
            : n \in 0..MaxNodes }

\* remaining_delta_v of the node now first in the queue, before its burn.
FirstDvLeft(ns) == IF ns = << >> THEN R(0) ELSE R(ns[1].delta_v)

\* The readings remaining_delta_v can fall to during the burn of nodes[1]:
\* all of it, a twentieth of it, none of it.
DvLeftValues ==
    IF has_node
    THEN { R(nodes[1].delta_v), Rat(nodes[1].delta_v, 20), R(0) }
    ELSE { R(0) }

\* The specific impulse a thrust reading can come with: engines that give
\* thrust have one; a vessel without thrust may report none.
IspFor(t) == IF t > 0 THEN {Isp0} ELSE IspValues

Hist0(ns) ==
    [ startNodes |-> Len(ns),   \* the queue length at start
      callNoNode |-> FALSE,     \* the current call began with no node
      sideEffects |-> FALSE,    \* the current call sent a command
      firstNode |-> 0,          \* id of the first node when the call began
      removed |-> << >>,        \* ids of the nodes the current call removed
      disengages |-> 0,         \* disengage() calls of the current call
      loopReturned |-> FALSE,   \* _burn_loop returned in the current call
      cleanupEarly |-> FALSE,   \* a cleanup command preceded that return
      burns |-> 0,              \* _burn_loop returns since the start
      zeroIters |-> 0,          \* consecutive loop tests on error 0, dV_left 0
      thrustMoved |-> FALSE,    \* thrust fell since the baseline was last set
      asActs |-> 0,             \* activations of the current _auto_stage call
      asSleeps |-> 0,           \* time.sleep() calls of that call
      iterThrottle |-> R(0),    \* what _throttle_manager wrote this iteration
      exitDv |-> R(-1),         \* dV_left when the loop test ended the loop
      calls |-> << >>,          \* the methods execute_node has called so far
      warps |-> 0,              \* warp_to() commands of the current call
      lastWarpTo |-> << >>,     \* what the last warp_safely_to_burn warped to
      waitUt |-> << >>,         \* the threshold wait_until_ut was called with
      waitSleeps |-> {},        \* the time.sleep() arguments of wait_until_ut
      obsComplete |-> {},       \* what callers saw of exhausted burns
      obsAborted |-> {},        \* what callers saw of aborted burns
      props |-> << >>,          \* the properties as a caller last read them
      linkFailed |-> FALSE,     \* a request over the link raised RPCError
      ctor |-> << >>,           \* the arguments of the NodeExecutor() call made
      iterSteps |-> << >>,      \* what the loop did since its last loop test
      nodesUsed |-> {},         \* ids of the nodes self.node gave the call
      planned |-> 0,            \* nodes a planner added since the start
      loopExc |-> << >>,        \* throttle, autopilot and queue as they were
                                \* when the loop body raised, if it did
      entryHigh |-> FALSE,      \* the first loop test read an error above 20
      loopWrites |-> FALSE,     \* the loop of the current call wrote a throttle
      staged |-> FALSE,         \* the current call activated a stage
      iterSleeps |-> << >>,     \* the time.sleep() arguments since the last
                                \* loop test
      apCalls |-> << >> ]       \* the autopilot's methods the last
                                \* align_to_burn called

Init ==
    /\ nodes \in NodeQueues
    /\ ut \in { R(t) : t \in StartUts }
    /\ thrust \in StartThrusts
    /\ isp \in IspFor(thrust)
    /\ error = 0
    /\ dvLeft = FirstDvLeft(nodes)
    /\ throttle = R(0)
    /\ apEngaged = FALSE
    /\ apTarget = << >>
    /\ stagesLeft = MaxStages
    /\ errStream = "none"
    /\ dvStream = "none"
    /\ pc = "main"
    /\ minimumBurnTime \in MinimumBurnTimes
    /\ marginIdx = 1
    /\ utThreshold = R(0)
    /\ availableThrust = 0
    /\ oldThrottle = R(0)
    /\ exc = "none"
    /\ hist = Hist0(nodes)

\* The history of one burn ends with its loop.
EndBurn(h) ==
    [h EXCEPT !.zeroIters = 0, !.thrustMoved = FALSE, !.asActs = 0,
              !.asSleeps = 0, !.iterThrottle = R(0), !.iterSteps = << >>,
              !.iterSleeps = << >>]

\* An exception leaves the statement at pc: to the caller ("raised") or, from
\* inside the with blocks of _burn_loop, through their exits first; the
\* frames it unwinds take their locals with them.
Raise(e, to) ==
    /\ pc' = to
    /\ exc' = e
    /\ availableThrust' = 0
    /\ oldThrottle' = R(0)
    /\ utThreshold' = R(0)
    /\ marginIdx' = 1
    /\ hist' = [EndBurn(hist) EXCEPT
                  !.linkFailed = @ \/ e = "RPCError",
                  !.loopExc = IF to = "close_dv" /\ pc # "read_thrust"
                              THEN << throttle, apEngaged, nodes >> ELSE @]
    /\ UNCHANGED << envVars, actuators, streams, minimumBurnTime >>

\* A command sent to the vessel by the current call.
Cmd(h) == [h EXCEPT !.sideEffects = TRUE]

\* self.node evaluated by the current call (lines 80-86): the node first in
\* the queue at that moment.
Used(h) == [h EXCEPT !.nodesUsed = @ \cup {nodes[1].id}]

EnterCall(h) ==
    [h EXCEPT !.callNoNode = ~has_node,
              !.sideEffects = FALSE,
              !.firstNode = IF has_node THEN nodes[1].id ELSE 0,
              !.removed = << >>,
              !.disengages = 0,
              !.loopReturned = FALSE,
              !.cleanupEarly = FALSE,
              !.exitDv = R(-1),
              !.calls = << >>,
              !.warps = 0,
              !.lastWarpTo = << >>,
              !.waitUt = << >>,
              !.waitSleeps = {},
              !.nodesUsed = {},
              !.loopExc = << >>,
              !.entryHigh = FALSE,
              !.loopWrites = FALSE,
              !.staged = FALSE,
              !.apCalls = << >>]

\* ------------------------------------------------------------ the callers
\* The __main__ loop (lines 259-263): while has_node: execute_node().
main_loop ==
    /\ pc = "main"
    /\ \E le \in LinkErrs :
          IF le # "none" THEN Raise(le, "raised")
          ELSE /\ pc' = IF has_node THEN "align" ELSE "done"
               /\ hist' = IF has_node THEN EnterCall(hist) ELSE hist
               /\ UNCHANGED << envVars, actuators, streams, locals, exc >>

\* A script calling Hal9000.execute_node() itself (docstring, lines 40-42)
\* when the queue is empty.
direct_call ==
    /\ pc = "main"
    /\ ~has_node
    /\ pc' = "align"
    /\ hist' = EnterCall(hist)
    /\ UNCHANGED << envVars, actuators, streams, locals, exc >>

\* ------------------------------------------------------------ the approach
\* A faulty target: the radial axis of the node's frame.
TargetDirectionRadial == << 1, 0, 0 >>

\* align_to_burn, line 130: the prograde axis of the node's frame.
TargetDirection == << 0, 1, 0 >>

\* align_to_burn, lines 127-131: the message, then the autopilot's target.
align_to_burn ==
    /\ pc = "align"
    /\ \E le \in LinkErrs :
          LET e == FirstErr(le, NodeUtRead)
          IN  IF e # "none" THEN Raise(e, "raised")
              ELSE /\ apTarget' = << nodes[1].id, TargetDirection, "nan" >>
                   /\ pc' = "engage"
                   /\ hist' = [Used(Cmd(hist)) EXCEPT
                                 !.apCalls = << >>,
                                 !.calls = Append(@, << "align_to_burn" >>)]
                   /\ UNCHANGED << envVars, throttle, apEngaged, streams,
                                   locals, exc >>

\* align_to_burn, lines 132-133: engage() and the 0.1 s sleep.
ap_engage ==
    /\ pc = "engage"
    /\ \E le \in LinkErrs :
          IF le # "none" THEN Raise(le, "raised")
          ELSE /\ apEngaged' = TRUE
               /\ pc' = "apwait"
               /\ hist' = [Cmd(hist) EXCEPT !.apCalls = Append(@, "engage")]
               /\ UNCHANGED << envVars, throttle, apTarget, streams, locals,
                               exc >>

\* align_to_burn, line 134: wait() returns once the vessel points at the
\* target.
ap_wait ==
    /\ pc = "apwait"
    /\ \E le \in LinkErrs :
          IF le # "none" THEN Raise(le, "raised")
          ELSE /\ error = 0
               /\ pc' = "warp"
               /\ hist' = [hist EXCEPT !.apCalls = Append(@, "wait")]
               /\ UNCHANGED << envVars, actuators, streams, locals, exc >>

\* A faulty test for warp_safely_to_burn: the comparison the wrong way round.
WarpNeededReversed(now, warp_time) == RLt(warp_time, now)

\* A faulty test for warp_safely_to_burn: a warp to the present time.
WarpNeededOrEqual(now, warp_time) == RLe(now, warp_time)

\* warp_safely_to_burn, line 140: ut < warp_time.
WarpNeeded(now, warp_time) == RLt(now, warp_time)

\* warp_safely_to_burn (lines 137-143) and the for loop of execute_node
\* (lines 237-239).
warp_safely_to_burn ==
    /\ pc = "warp"
    /\ \E le \in LinkErrs :
          LET margin == approach_margins[marginIdx]
              e == FirstErr(le, burn_ut.err)
              warp_time == RSub(burn_ut.val, R(margin))
              last == marginIdx = Len(approach_margins)
              called == [Used(hist) EXCEPT
                           !.calls = Append(@, << "warp_safely_to_burn",
                                                  margin >>)]
          IN  IF e # "none" THEN Raise(e, "raised")
              ELSE /\ ut' = IF WarpNeeded(ut, warp_time) THEN warp_time ELSE ut
                   /\ hist' = IF WarpNeeded(ut, warp_time)
                              THEN [Cmd(called) EXCEPT
                                      !.warps = Bump(@),
                                      !.lastWarpTo = warp_time]
                              ELSE [called EXCEPT !.lastWarpTo = << >>]
                   /\ marginIdx' = IF last THEN 1 ELSE marginIdx + 1
                   /\ pc' = IF last THEN "wait_eval" ELSE "align"
                   /\ UNCHANGED << nodes, thrust, isp, error, dvLeft,
                                   stagesLeft, actuators, streams,
                                   minimumBurnTime, utThreshold,
                                   availableThrust, oldThrottle, exc >>

\* execute_node, line 240: the argument self.burn_ut is evaluated once.
wait_eval ==
    /\ pc = "wait_eval"
    /\ \E le \in LinkErrs :
          LET e == FirstErr(le, burn_ut.err)
          IN  IF e # "none" THEN Raise(e, "raised")
              ELSE /\ utThreshold' = burn_ut.val
                   /\ pc' = "wait_poll"
                   /\ hist' = [hist EXCEPT
                                 !.waitUt = burn_ut.val,
                                 !.calls = Append(@, << "wait_until_ut" >>)]
                   /\ UNCHANGED << envVars, actuators, streams,
                                   minimumBurnTime, marginIdx, availableThrust,
                                   oldThrottle, exc >>

\* A faulty loop test for wait_until_ut: the comparison the wrong way round.
TooEarlyReversed(now, ut_threshold) == RLt(ut_threshold, now)

\* wait_until_ut, line 147: the loop test, ut < ut_threshold.
TooEarly(now, ut_threshold) == RLt(now, ut_threshold)

\* wait_until_ut, line 148: time.sleep(0.01).
PollSleep == Rat(1, 100)

\* wait_until_ut (lines 145-149): one poll, and one sleep if it is too early.
wait_until_ut ==
    /\ pc = "wait_poll"
    /\ \E le \in LinkErrs :
          IF le # "none" THEN Raise(le, "raised")
          ELSE IF TooEarly(ut, utThreshold)
               THEN /\ \E dt \in SleepSteps : ut' = RAdd(ut, R(dt))
                    /\ hist' = [hist EXCEPT !.waitSleeps = @ \cup {PollSleep}]
                    /\ UNCHANGED << nodes, thrust, isp, error, dvLeft,
                                    stagesLeft, actuators, streams, pc, locals,
                                    exc >>
               ELSE /\ pc' = "ignition"
                    /\ utThreshold' = R(0)
                    /\ UNCHANGED << envVars, actuators, streams,
                                    minimumBurnTime, marginIdx, availableThrust,
                                    oldThrottle, exc, hist >>

\* ------------------------------------------------------------ the burn
\* burn_baby_burn, line 225: _print_burn_event('Ignition').
ignition ==
    /\ pc = "ignition"
    /\ \E le \in LinkErrs :
          LET e == FirstErr(le, NodeUtRead)
          IN  IF e # "none" THEN Raise(e, "raised")
              ELSE /\ pc' = "open_err"
                   /\ hist' = [hist EXCEPT
                                 !.calls = Append(@, << "burn_baby_burn" >>)]
                   /\ UNCHANGED << envVars, actuators, streams, locals,
                                   exc >>

\* _burn_loop, line 209: the stream of the autopilot's error is opened.
open_error_stream ==
    /\ pc = "open_err"
    /\ \E le \in LinkErrs :
          IF le # "none" THEN Raise(le, "raised")
          ELSE /\ errStream' = "open"
               /\ pc' = "open_dv"
               /\ UNCHANGED << envVars, actuators, dvStream, locals, exc,
                               hist >>

\* _burn_loop, line 210: the stream of self.node.remaining_delta_v is opened
\* inside the first with block.
open_dv_stream ==
    /\ pc = "open_dv"
    /\ \E le \in LinkErrs :
          LET e == FirstErr(le, NodeUtRead)
          IN  IF e # "none" THEN Raise(e, "close_err")
              ELSE /\ dvStream' = "open"
                   /\ pc' = "read_thrust"
                   /\ hist' = Used(hist)
                   /\ UNCHANGED << envVars, actuators, errStream, locals,
                                   exc >>

\* _burn_loop, line 211: the thrust baseline at loop entry.
read_thrust ==
    /\ pc = "read_thrust"
    /\ \E le \in LinkErrs :
          IF le # "none" THEN Raise(le, "close_dv")
          ELSE /\ availableThrust' = thrust
               /\ pc' = "check"
               /\ hist' = [hist EXCEPT !.zeroIters = 0,
                                       !.thrustMoved = FALSE, !.asActs = 0]
               /\ UNCHANGED << envVars, actuators, streams, minimumBurnTime,
                               marginIdx, utThreshold, oldThrottle, exc >>

\* A faulty loop body: it starts at the staging, without the throttle write.
LoopBodyFirstStaging == "as_ratio"

\* _burn_loop, line 213: the first statement of the loop body.
LoopBodyFirst == "throttle"

\* _burn_loop, line 212: while not self._is_burn_complete(error()).
burn_check ==
    /\ pc = "check"
    /\ pc' = IF is_burn_complete(error) THEN "close_dv" ELSE LoopBodyFirst
    /\ hist' = IF is_burn_complete(error)
               THEN [EndBurn(hist) EXCEPT
                       !.exitDv = dvLeft,
                       !.entryHigh = IF hist.iterSteps = << >>
                                     THEN error > AbortThreshold ELSE @]
               ELSE [hist EXCEPT
                       !.iterSteps = << >>,
                       !.iterSleeps = << >>,
                       !.entryHigh = IF hist.iterSteps = << >>
                                     THEN error > AbortThreshold ELSE @,
                       !.zeroIters = IF error = 0 /\ RIsZero(dvLeft)
                                     THEN Min(@ + 1, Epsilon + 1) ELSE 0]
    /\ availableThrust' = IF is_burn_complete(error) THEN 0
                          ELSE availableThrust
    /\ UNCHANGED << envVars, actuators, streams, minimumBurnTime, marginIdx,
                    utThreshold, oldThrottle, exc >>

\* _throttle_manager (lines 157-164), called at line 213 on dV_left().
throttle_manager ==
    /\ pc = "throttle"
    /\ \E le \in LinkErrs :
          LET cmd == ThrottleCommand(dvLeft)
              e == FirstErr(le, cmd.err)
          IN  IF e # "none" THEN Raise(e, "close_dv")
              ELSE /\ throttle' = cmd.val
                   /\ pc' = "as_ratio"
                   /\ hist' = [Used(Cmd(hist)) EXCEPT
                                 !.loopWrites = TRUE,
                                 !.iterThrottle = cmd.val,
                                 !.iterSteps = Append(@, "throttle_write")]
                   /\ UNCHANGED << envVars, apEngaged, apTarget, streams,
                                   locals, exc >>

\* _auto_stage, lines 177-181: the thrust now against the baseline.
auto_stage_ratio ==
    /\ pc = "as_ratio"
    /\ \E le \in LinkErrs :
          IF le # "none" THEN Raise(le, "close_dv")
          ELSE /\ pc' = IF ThrustRatioLow(thrust, availableThrust)
                        THEN "as_zero" ELSE "as_return"
               /\ hist' = [hist EXCEPT
                             !.asActs = 0, !.asSleeps = 0,
                             !.iterSteps = Append(@, "staging_check")]
               /\ UNCHANGED << envVars, actuators, streams, locals, exc >>

\* _auto_stage, lines 184 and 187: time.sleep(0.1).
StageSleep == Rat(1, 10)

\* _auto_stage, lines 182-184: the throttle is saved and zeroed; 0.1 s sleep.
auto_stage_zero ==
    /\ pc = "as_zero"
    /\ \E le \in LinkErrs :
          IF le # "none" THEN Raise(le, "close_dv")
          ELSE /\ oldThrottle' = throttle
               /\ throttle' = R(0)
               /\ pc' = "as_activate"
               /\ hist' = [Cmd(hist) EXCEPT
                             !.asSleeps = Bump(@),
                             !.loopWrites = TRUE,
                             !.iterSleeps = Append(@, StageSleep)]
               /\ UNCHANGED << envVars, apEngaged, apTarget, streams,
                               minimumBurnTime, marginIdx, utThreshold,
                               availableThrust, exc >>

\* _auto_stage, line 185: activate_next_stage().  A stage that is left brings
\* whatever thrust it has; with none left the command changes nothing.
auto_stage_activate ==
    /\ pc = "as_activate"
    /\ \E le \in LinkErrs :
          IF le # "none" THEN Raise(le, "close_dv")
          ELSE /\ IF stagesLeft > 0
                  THEN /\ stagesLeft' = stagesLeft - 1
                       /\ \E t \in ThrustValues :
                             /\ thrust' = t
                             /\ isp' \in IspFor(t)
                  ELSE UNCHANGED << stagesLeft, thrust, isp >>
               /\ pc' = "as_restore"
               /\ hist' = [Cmd(hist) EXCEPT !.asActs = Bump(@),
                                            !.thrustMoved = FALSE,
                                            !.staged = TRUE]
               /\ UNCHANGED << nodes, ut, error, dvLeft, actuators, streams,
                               locals, exc >>

\* A faulty restore: the throttle stays where the staging put it.
RestoredThrottleLost == throttle

\* _auto_stage, line 188: the throttle goes back to old_throttle.
RestoredThrottle == oldThrottle

\* _auto_stage, lines 186-188: the 'Staged' message, 0.1 s sleep, and the
\* throttle restored.
auto_stage_restore ==
    /\ pc = "as_restore"
    /\ \E le \in LinkErrs :
          LET e == FirstErr(le, NodeUtRead)
          IN  IF e # "none" THEN Raise(e, "close_dv")
              ELSE /\ throttle' = RestoredThrottle
                   /\ pc' = "as_return"
                   /\ hist' = [Cmd(hist) EXCEPT
                                 !.asSleeps = Bump(@),
                                 !.iterSleeps = Append(@, StageSleep)]
                   /\ UNCHANGED << envVars, apEngaged, apTarget, streams,
                                   locals, exc >>

\* A faulty return: old_thrust comes back, the baseline never moves.
ReturnedThrustStale == availableThrust

\* _auto_stage, line 189: the value returned is the thrust read now.
ReturnedThrust == thrust

\* _auto_stage, line 189, and the assignment of line 214.
auto_stage_return ==
    /\ pc = "as_return"
    /\ \E le \in LinkErrs :
          IF le # "none" THEN Raise(le, "close_dv")
          ELSE /\ availableThrust' = ReturnedThrust
               /\ oldThrottle' = R(0)
               /\ pc' = "sleep"
               /\ UNCHANGED << envVars, actuators, streams, minimumBurnTime,
                               marginIdx, utThreshold, exc, hist >>

\* A faulty _wait_to_go_around_again: a sleep of a tenth of a second.
LoopSleepLong == Rat(1, 10)

\* _wait_to_go_around_again, line 200: time.sleep(0.01).
LoopSleep == Rat(1, 100)

\* _wait_to_go_around_again (lines 198-201), called at line 215.
wait_to_go_around_again ==
    /\ pc = "sleep"
    /\ pc' = "check"
    /\ hist' = [hist EXCEPT !.iterSleeps = Append(@, LoopSleep)]
    /\ UNCHANGED << envVars, actuators, streams, locals, exc >>

\* A faulty exit: a close written after the loop, which an exception skips.
StreamExitOnReturnOnly(st) ==
    IF exc # "none" THEN st
    ELSE IF st = "open" THEN "closed" ELSE "misclosed"

\* A with block closes its stream on the way out, whatever the way (lines
\* 209-210); closing a stream that is not open is a fault.
StreamExit(st) == IF st = "open" THEN "closed" ELSE "misclosed"

\* The exit of the inner with block (line 210), taken on every way out.
close_dv_stream ==
    /\ pc = "close_dv"
    /\ dvStream' = StreamExit(dvStream)
    /\ pc' = "close_err"
    /\ UNCHANGED << envVars, actuators, errStream, locals, exc, hist >>

\* A faulty exit: a context manager that swallows the exception in flight.
ExitSuppressesAll == TRUE

\* The exit of a stream's with block (lines 209-210) hands the exception in
\* flight on: no except clause of _burn_loop or its callers takes it.
ExitSuppresses == FALSE

\* The exit of the outer with block (line 209); an exception in flight goes
\* on to the caller, skipping the rest of _burn_loop and of burn_baby_burn.
close_error_stream ==
    /\ pc = "close_err"
    /\ errStream' = StreamExit(errStream)
    /\ pc' = IF exc # "none" /\ ~ExitSuppresses THEN "raised"
             ELSE "throttle_zero"
    /\ exc' = IF ExitSuppresses THEN "none" ELSE exc
    /\ UNCHANGED << envVars, actuators, dvStream, locals, hist >>

\* A faulty end of _burn_loop: the throttle is left as the loop had it.
FinalThrottleKept == throttle

\* _burn_loop, line 216: self.vessel.control.throttle = 0.0.
FinalThrottle == R(0)

\* _burn_loop, lines 216-217: the throttle is zeroed and the loop returns.
throttle_zero ==
    /\ pc = "throttle_zero"
    /\ \E le \in LinkErrs :
          IF le # "none" THEN Raise(le, "raised")
          ELSE /\ throttle' = FinalThrottle
               /\ pc' = "meco"
               /\ hist' = [Cmd(hist) EXCEPT !.loopReturned = TRUE,
                                            !.burns = Bump(@)]
               /\ UNCHANGED << envVars, apEngaged, apTarget, streams, locals,
                               exc >>

\* burn_baby_burn, lines 229-230: the 'MECO' message and _print_burn_error
\* (lines 219-221), which divides by self.delta_v.
meco ==
    /\ pc = "meco"
    /\ \E le \in LinkErrs :
          LET e == FirstErr(le,
                     FirstErr(NodeUtRead,
                        IF RIsZero(delta_v.val) THEN "ZeroDivisionError"
                        ELSE "none"))
          IN  IF e # "none" THEN Raise(e, "raised")
              ELSE /\ pc' = "disengage"
                   /\ UNCHANGED << envVars, actuators, streams, locals, exc,
                                   hist >>

\* _cleanup, line 194: auto_pilot.disengage().
cleanup_disengage ==
    /\ pc = "disengage"
    /\ \E le \in LinkErrs :
          IF le # "none" THEN Raise(le, "raised")
          ELSE /\ apEngaged' = FALSE
               /\ pc' = "remove"
               /\ hist' = [Cmd(hist) EXCEPT
                             !.disengages = Bump(@),
                             !.cleanupEarly = @ \/ ~hist.loopReturned]
               /\ UNCHANGED << envVars, throttle, apTarget, streams, locals,
                               exc >>

\* The queue without its i-th node.
Without(ns, i) == SubSeq(ns, 1, i - 1) \o SubSeq(ns, i + 1, Len(ns))

\* A faulty node property: the last node of the queue.
RemovedIndexLast == Len(nodes)

\* The node property, line 84: self.node is the first node of the queue.
RemovedIndex == 1

\* _cleanup, line 195: self.node.remove() takes the node now first.
cleanup_remove ==
    /\ pc = "remove"
    /\ \E le \in LinkErrs :
          LET e == FirstErr(le, NodeUtRead)
          IN  IF e # "none" THEN Raise(e, "raised")
              ELSE /\ nodes' = Without(nodes, RemovedIndex)
                   /\ dvLeft' = FirstDvLeft(Without(nodes, RemovedIndex))
                   /\ pc' = "return"
                   /\ hist' = [Used(Cmd(hist)) EXCEPT
                                 !.removed = Append(@, nodes[RemovedIndex].id),
                                 !.cleanupEarly = @ \/ ~hist.loopReturned]
                   /\ UNCHANGED << ut, thrust, isp, error, stagesLeft,
                                   actuators, streams, locals, exc >>

\* What the caller can see of the call that just ended: the value returned,
\* the throttle, the autopilot, the number of nodes taken off the queue.
Observed == << "None", throttle, apEngaged, Len(hist.removed) >>

\* execute_node, line 242 (after burn_baby_burn's return, line 233).
execute_return ==
    /\ pc = "return"
    /\ pc' = "main"
    /\ hist' = [hist EXCEPT
                  !.obsComplete = IF RIsZero(hist.exitDv)
                                  THEN @ \cup {Observed} ELSE @,
                  !.obsAborted = IF RLt(R(0), hist.exitDv)
                                 THEN @ \cup {Observed} ELSE @]
    /\ UNCHANGED << envVars, actuators, streams, locals, exc >>

\* ------------------------------------------------------------ the vessel
\* The vessel's readings move between the program's steps.  The model moves
\* each one at the statements from which the program can next read it: a
\* change at any other statement is seen by the program in the same way.
ThrustReadPcs == {"throttle", "as_ratio", "as_return"}
DvReadPcs == {"throttle", "sleep"}
ErrorReadPcs == {"apwait", "read_thrust", "throttle", "sleep"}

\* A running engine uses up its stage: the available thrust falls.
thrust_drop ==
    /\ pc \in ThrustReadPcs
    /\ RLt(R(0), throttle)
    /\ \E t \in ThrustValues :
          /\ t < thrust
          /\ thrust' = t
          /\ isp' \in IspFor(t)
    /\ hist' = [hist EXCEPT !.thrustMoved = TRUE]
    /\ UNCHANGED << nodes, ut, error, dvLeft, stagesLeft, actuators, streams,
                    pc, locals, exc >>

\* A burning engine works off the node's remaining delta-v.
dv_decay ==
    /\ pc \in DvReadPcs
    /\ RLt(R(0), throttle)
    /\ thrust > 0
    /\ \E d \in DvLeftValues :
          /\ RLt(d, dvLeft)
          /\ dvLeft' = d
    /\ UNCHANGED << nodes, ut, thrust, isp, error, stagesLeft, actuators,
                    streams, pc, locals, exc, hist >>

\* The attitude error moves while the autopilot steers and while the engine
\* burns.
attitude_drift ==
    /\ pc \in ErrorReadPcs
    /\ \E e \in ErrorValues \ {error} : error' = e
    /\ UNCHANGED << nodes, ut, thrust, isp, dvLeft, stagesLeft, actuators,
                    streams, pc, locals, exc, hist >>

Next ==
    \/ main_loop
    \/ direct_call
    \/ align_to_burn
    \/ ap_engage
    \/ ap_wait
    \/ warp_safely_to_burn
    \/ wait_eval
    \/ wait_until_ut
    \/ ignition
    \/ open_error_stream
    \/ open_dv_stream
    \/ read_thrust
    \/ burn_check
    \/ throttle_manager
    \/ auto_stage_ratio
    \/ auto_stage_zero
    \/ auto_stage_activate
    \/ auto_stage_restore
    \/ auto_stage_return
    \/ wait_to_go_around_again
    \/ close_dv_stream
    \/ close_error_stream
    \/ throttle_zero
    \/ meco
    \/ cleanup_disengage
    \/ cleanup_remove
    \/ execute_return
    \/ thrust_drop
    \/ dv_decay
    \/ attitude_drift

Spec == Init /\ [][Next]_vars

\* The steps of the program itself, those of the vessel apart.
Program ==
    \/ main_loop
    \/ direct_call
    \/ align_to_burn
    \/ ap_engage
    \/ ap_wait
    \/ warp_safely_to_burn
    \/ wait_eval
    \/ wait_until_ut
    \/ ignition
    \/ open_error_stream
    \/ open_dv_stream
    \/ read_thrust
    \/ burn_check
    \/ throttle_manager
    \/ auto_stage_ratio
    \/ auto_stage_zero
    \/ auto_stage_activate
    \/ auto_stage_restore
    \/ auto_stage_return
    \/ wait_to_go_around_again
    \/ close_dv_stream
    \/ close_error_stream
    \/ throttle_zero
    \/ meco
    \/ cleanup_disengage
    \/ cleanup_remove
    \/ execute_return

\* The starts of Init with one 10 m/s node, a vessel that has thrust, and
\* a call made after the node's time.
LiveInit ==
    /\ Init
    /\ Len(nodes) = 1
    /\ nodes[1].delta_v > 0
    /\ thrust > 0
    /\ RLt(R(NodeUt), ut)

\* The same program under the scheduling it has: one thread, which the
\* interpreter keeps running, and whose sleeps and requests return; so a
\* step of the program that stays possible is taken.  Nothing obliges the
\* vessel's readings to move.
LiveSpec == LiveInit /\ [][Next]_vars /\ WF_vars(Program)

\* ------------------------------------------------- the properties, alone
\* A second specification: a NodeExecutor on one node and one set of vessel
\* readings, whose caller either calls _throttle_manager on a reading of
\* remaining_delta_v or reads the properties, as the unit tests do.
PropThrusts == {0, 100, 7365}
PropIsps == {50, Isp0}
PropDvValues == {0, 10, 491}
PropMinimumBurnTimes == {0, 2, DefaultMinimumBurnTime}
\* vessel.mass (line 101), around the mass the vessel has.
PropMasses == {Mass \div 2, Mass, 2 * Mass}
\* dV_left as a fraction of delta_v; _throttle_manager takes any number.
TaperRatios ==
    { R(-1), R(0), Rat(1, 1000), Rat(1, 200), Rat(1, 100), Rat(1, 20),
      Rat(1, 10), Rat(1, 2), R(1), R(2) }

PropInit ==
    /\ \E dv \in PropDvValues :
          /\ nodes = << [id |-> 1, ut |-> NodeUt, delta_v |-> dv] >>
          /\ dvLeft \in { RMul(r, R(dv)) : r \in TaperRatios }
    /\ ut = R(1980)
    /\ thrust \in PropThrusts
    /\ isp \in IF thrust > 0 THEN PropIsps ELSE PropIsps \cup {0}
    /\ error = 0
    /\ throttle = R(0)
    /\ apEngaged = FALSE
    /\ apTarget = << >>
    /\ stagesLeft = MaxStages
    /\ errStream = "none"
    /\ dvStream = "none"
    /\ pc = "props"
    /\ minimumBurnTime \in PropMinimumBurnTimes
    /\ marginIdx = 1
    /\ utThreshold = R(0)
    /\ availableThrust = 0
    /\ oldThrottle = R(0)
    /\ exc = "none"
    /\ hist = Hist0(nodes)

\* test__throttle_manager: Hal9000._throttle_manager(dV_left), lines 157-164.
call_throttle_manager ==
    /\ pc = "props"
    /\ LET cmd == ThrottleCommand(dvLeft)
       IN  IF cmd.err # "none" THEN Raise(cmd.err, "raised")
           ELSE /\ throttle' = cmd.val
                /\ pc' = "called"
                /\ hist' = Cmd(hist)
                /\ UNCHANGED << envVars, apEngaged, apTarget, streams, locals,
                                exc >>

\* A caller reads burn_time_at_max_thrust, maximum_throttle, burn_time and
\* burn_ut (lines 98-123), as __str__ and the tests do.
read_properties ==
    /\ pc = "props"
    /\ pc' = "read"
    /\ hist' = [hist EXCEPT
                  !.props = [ burn_time_at_max_thrust |-> burn_time_at_max_thrust,
                              maximum_throttle |-> maximum_throttle,
                              burn_time |-> burn_time,
                              burn_ut |-> burn_ut ]]
    /\ UNCHANGED << envVars, actuators, streams, locals, exc >>

PropNext == call_throttle_manager \/ read_properties

PropSpec == PropInit /\ [][PropNext]_vars

\* ------------------------------------------------------ the constructor
\* A third specification: a script constructs a NodeExecutor, with or without
\* the minimum_burn_time argument, and reads node and has_node, as the tests
\* of __init__, node and has_node do.
CtorMinimumBurnTimes == {-10, -1, 0, DefaultMinimumBurnTime, 10}

\* The positional arguments of the call: none, or minimum_burn_time.
CtorArgs == { << >> } \cup { << m >> : m \in CtorMinimumBurnTimes }

\* __init__, line 70: the parameter, with its default.
MinimumBurnTimeParameter(args) ==
    IF args = << >> THEN DefaultMinimumBurnTime ELSE args[1]

\* A faulty constructor: the assertion left out.
ArgumentAssertedNever(minimum_burn_time) == TRUE

\* __init__, line 76: assert(minimum_burn_time >= 0).
ArgumentAsserted(minimum_burn_time) == minimum_burn_time >= 0

\* The node property (lines 80-86): nodes[0], or None (here the empty
\* tuple) on IndexError.
node == IF Len(nodes) = 0 THEN << >> ELSE << nodes[1] >>

\* Before the call there is no NodeExecutor: 0 stands for the attribute that
\* does not exist yet.
NewInit ==
    /\ nodes \in NodeQueues
    /\ ut \in { R(t) : t \in StartUts }
    /\ thrust \in StartThrusts
    /\ isp \in IspFor(thrust)
    /\ error = 0
    /\ dvLeft = FirstDvLeft(nodes)
    /\ throttle = R(0)
    /\ apEngaged = FALSE
    /\ apTarget = << >>
    /\ stagesLeft = MaxStages
    /\ errStream = "none"
    /\ dvStream = "none"
    /\ pc = "new"
    /\ minimumBurnTime = 0
    /\ marginIdx = 1
    /\ utThreshold = R(0)
    /\ availableThrust = 0
    /\ oldThrottle = R(0)
    /\ exc = "none"
    /\ hist = Hist0(nodes)

\* __init__ (lines 70-78): connect, read the vessel and its thrust, keep the
\* argument, assert it.
construct ==
    /\ pc = "new"
    /\ \E args \in CtorArgs, le \in LinkErrs :
          LET minimum_burn_time == MinimumBurnTimeParameter(args)
              e == FirstErr(le, IF ArgumentAsserted(minimum_burn_time)
                                THEN "none" ELSE "AssertionError")
          IN  /\ pc' = IF e # "none" THEN "raised" ELSE "constructed"
              /\ exc' = e
              /\ minimumBurnTime' = IF e # "none" THEN minimumBurnTime
                                    ELSE minimum_burn_time
              /\ hist' = [hist EXCEPT !.ctor = << args >>,
                                      !.linkFailed = le # "none"]
              /\ UNCHANGED << envVars, actuators, streams, marginIdx,
                              utThreshold, availableThrust, oldThrottle >>

\* A caller reads node and has_node (lines 80-91).
read_node ==
    /\ pc = "constructed"
    /\ \E le \in LinkErrs :
          IF le # "none" THEN Raise(le, "raised")
          ELSE /\ pc' = "read"
               /\ hist' = [hist EXCEPT
                             !.props = [ node |-> node,
                                         has_node |-> has_node ]]
               /\ UNCHANGED << envVars, actuators, streams, locals, exc >>

NewNext == construct \/ read_node

NewSpec == NewInit /\ [][NewNext]_vars

\* ------------------------------------------------------------ properties
\* pcs inside the outer and the inner with block of _burn_loop.
LoopPcs == {"check", "throttle", "as_ratio", "as_zero", "as_activate",
            "as_restore", "as_return", "sleep"}
InErrorWith == {"open_dv", "read_thrust", "close_dv", "close_err"} \cup LoopPcs
InDvWith == {"read_thrust", "close_dv"} \cup LoopPcs

\* C1: a call of execute_node() that finds no node on the queue sends no
\* command to the vessel and raises no error of its own (a failure of the
\* link apart).
C1_NoNodeCallIsNoOp ==
    hist.callNoNode => ~hist.sideEffects /\ exc \in {"none", "RPCError"}

\* C2: once remaining_delta_v reads zero with the attitude error at 0, the
\* burn loop stops within Epsilon more loop tests: no more than Epsilon
\* consecutive tests find dV_left zero and error 0 and keep the loop going.
C2_LoopEndsOnExhaustedDeltaV == hist.zeroIters <= Epsilon

\* C3: a loop test that finds the attitude error above 20 degrees ends the
\* loop there and then, whatever delta-v remains, and whenever _burn_loop
\* returns, the throttle it leaves commanded is 0.
C3_AbortExitsLoopThrottleZero ==
    [][ /\ (pc = "check" /\ error > AbortThreshold => pc' = "close_dv")
        /\ (pc' = "meco" => throttle' = R(0)) ]_vars

\* C3 happens: _burn_loop has returned on an abort with the whole of the
\* node's delta-v still to burn, after at least one iteration throttled up.
C3_Witness ==
    /\ pc = "meco"
    /\ error > AbortThreshold
    /\ hist.exitDv = R(10)
    /\ hist.sideEffects
    /\ throttle = R(0)

\* C4: with a node of non-zero delta-v, a thrust or specific impulse reading
\* of zero never makes execute_node raise ZeroDivisionError.
C4_ZeroReadingNeverRaises ==
    (has_node /\ nodes[1].delta_v > 0 /\ (thrust = 0 \/ isp = 0))
        => exc # "ZeroDivisionError"

\* C5: each stream _burn_loop opens is closed exactly once on every way out:
\* no stream is open outside its with block, whether the loop returned or
\* raised, and no close ever hits a stream that is not open.
C5_StreamsClosedOnce ==
    /\ errStream # "misclosed"
    /\ dvStream # "misclosed"
    /\ (errStream = "open" => pc \in InErrorWith)
    /\ (dvStream = "open" => pc \in InDvWith)
    /\ (pc \in LoopPcs => errStream = "open" /\ dvStream = "open")

\* C5 happens: an exception raised inside the loop has reached the caller and
\* both streams are closed.
C5_Witness ==
    /\ pc = "raised"
    /\ exc = "ZeroDivisionError"
    /\ hist.sideEffects
    /\ errStream = "closed"
    /\ dvStream = "closed"

\* C6: when execute_node returns, it has removed exactly one node, the one
\* that was first when it began, and disengaged the autopilot exactly once,
\* both after _burn_loop returned; and when the loop "while has_node:
\* execute_node()" ends on a queue that held N nodes, it has made N burns and
\* has_node is false.
C6_OneNodePerBurn ==
    /\ (pc = "return" =>
           /\ hist.removed = << hist.firstNode >>
           /\ hist.disengages = 1
           /\ hist.loopReturned
           /\ ~hist.cleanupEarly
           /\ ~apEngaged)
    /\ (pc = "done" => hist.burns = hist.startNodes /\ ~has_node)

\* C6 happens: the loop has ended on a queue that held two nodes.
C6_Witness == pc = "done" /\ hist.startNodes = 2 /\ hist.burns = 2

\* C6 happens: a call returns with a node still on the queue.
C6_WitnessReturn == pc = "return" /\ has_node /\ hist.removed = << 1 >>

\* C7: what a caller can see when execute_node returns tells a burn that
\* ended on exhausted delta-v from a burn that was aborted: no observation
\* belongs to both.
C7_OutcomesDistinct == hist.obsComplete \cap hist.obsAborted = {}

\* C8: when the thrust is found at 50 against a baseline of 100, the stage
\* is activated exactly once, with the throttle taken from its positive value
\* to 0 before the activation and back to that same value after it, and the
\* baseline of the next iteration is the thrust read after the activation.
C8_StagingSequence ==
    [][ /\ (pc = "as_ratio" /\ pc' # pc /\ availableThrust = 100 /\ thrust = 50
               => pc' \in {"as_zero", "close_dv"})
        /\ (pc = "as_zero" /\ pc' = "as_activate"
               => /\ RLt(R(0), throttle)
                  /\ oldThrottle' = throttle
                  /\ throttle' = R(0)
                  /\ hist'.asActs = 0)
        /\ (pc = "as_activate" /\ pc' = "as_restore"
               => throttle = R(0) /\ throttle' = R(0) /\ hist'.asActs = 1)
        /\ (pc = "as_restore" /\ pc' = "as_return"
               => /\ throttle' = oldThrottle
                  /\ RLt(R(0), throttle')
                  /\ hist'.asActs = 1)
        /\ (pc = "as_return" /\ pc' = "sleep"
               => availableThrust' = thrust /\ UNCHANGED throttle)
        /\ (pc = "sleep" => availableThrust = thrust) ]_vars

\* C8 happens: the call that found 50 against 100 is about to return, having
\* activated once and put the throttle back.
C8_Witness ==
    /\ pc = "as_return"
    /\ availableThrust = 100
    /\ hist.asActs = 1
    /\ hist.asSleeps = 2
    /\ RLt(R(0), throttle)
    /\ throttle = oldThrottle

C9_WitnessStaged ==
    /\ pc = "as_activate"
    /\ availableThrust = 100
    /\ thrust = 50

\* C10: a stage is activated only after the thrust fell since the loop began
\* or since the last activation: an activation that leaves the thrust as it
\* was is not tried again while the thrust stays where it is, zero included,
\* so there are never more activations than drops.
C10_NoRetryWithoutDrop ==
    [][ pc = "as_activate" /\ pc' = "as_restore" => hist.thrustMoved ]_vars

\* C10 happens: the last stage is spent, the thrust has stayed at zero since
\* the activation, and a later _auto_stage call ends without staging.
C10_Witness ==
    /\ pc = "as_return"
    /\ stagesLeft = 0
    /\ thrust = 0
    /\ availableThrust = 0
    /\ ~hist.thrustMoved
    /\ hist.asActs = 0

\* pcs of burn_baby_burn up to the return of _burn_loop.
BurnPcs == {"ignition", "open_err", "open_dv", "read_thrust", "close_dv",
            "close_err", "throttle_zero"} \cup LoopPcs

\* C11: wait_until_ut returns only once ut has reached its threshold, the
\* burn_ut read at the call; it returns without a sleep when ut is there
\* already and sleeps 10 ms after every poll that finds ut below it; the burn
\* begins only at that return, so the throttle is written and a stage
\* activated only with ut at or past that threshold.
C11_NoBurnBeforeBurnUt ==
    [][ /\ (pc = "wait_poll" /\ pc' = "ignition"
               => /\ RLe(utThreshold, ut)
                  /\ utThreshold = hist.waitUt
                  /\ UNCHANGED << ut, hist >>)
        /\ (pc = "wait_poll" /\ pc' = "wait_poll" /\ ut' # ut
               => /\ RLt(ut, utThreshold)
                  /\ hist'.waitSleeps = {Rat(1, 100)})
        /\ (pc' = "ignition" => pc = "wait_poll")
        /\ (pc' \in BurnPcs => pc \in BurnPcs \cup {"wait_poll"})
        /\ (throttle' # throttle \/ stagesLeft' # stagesLeft
               \/ hist'.asActs > hist.asActs
               => /\ pc \in BurnPcs
                  /\ hist.waitUt # << >>
                  /\ RLe(hist.waitUt, ut)) ]_vars

\* C11 happens: the wait slept, and the burn that followed has throttled up.
C11_Witness ==
    /\ pc = "as_ratio"
    /\ hist.waitSleeps = {Rat(1, 100)}
    /\ RLe(hist.waitUt, ut)
    /\ RLt(R(0), throttle)

\* pcs of the approach: align_to_burn, warp_safely_to_burn, wait_until_ut.
ApproachPcs == {"align", "engage", "apwait", "warp", "wait_eval", "wait_poll"}

\* C12: the approach (align, warp, wait) writes no throttle and activates no
\* stage; _burn_loop writes no autopilot target, does not engage or disengage
\* the autopilot and commands no warp; and the autopilot is disengaged only
\* after _burn_loop has set the throttle to 0.
C12_OnePhaseCommandsEach ==
    [][ /\ (pc \in ApproachPcs
               => /\ UNCHANGED << throttle, stagesLeft >>
                  /\ hist'.asActs = hist.asActs)
        /\ (pc \in BurnPcs
               => /\ UNCHANGED << apTarget, apEngaged >>
                  /\ hist'.warps = hist.warps
                  /\ hist'.disengages = hist.disengages)
        /\ (apEngaged /\ ~apEngaged'
               => /\ pc = "disengage"
                  /\ throttle = R(0)
                  /\ hist.loopReturned) ]_vars

\* C12 happens: the autopilot has just been disengaged after a burn that
\* worked off part of the node's delta-v.
C12_Witness ==
    /\ pc = "remove"
    /\ ~apEngaged
    /\ throttle = R(0)
    /\ hist.disengages = 1
    /\ RLt(hist.exitDv, R(10))
    /\ RLe(R(0), hist.exitDv)

\* The calls of execute_node (lines 237-241), in order.
ExecuteNodeCalls ==
    << << "align_to_burn" >>, << "warp_safely_to_burn", 180 >>,
       << "align_to_burn" >>, << "warp_safely_to_burn", 5 >>,
       << "wait_until_ut" >>, << "burn_baby_burn" >> >>

\* C13: execute_node calls, in this order and once each: align_to_burn,
\* warp_safely_to_burn(margin=180), align_to_burn,
\* warp_safely_to_burn(margin=5), wait_until_ut(burn_ut), burn_baby_burn.
\* What it has called so far is always a beginning of that list, all of it
\* once the burn has begun, and wait_until_ut gets burn_ut as read then.
C13_CallOrder ==
    /\ Len(hist.calls) <= Len(ExecuteNodeCalls)
    /\ hist.calls = SubSeq(ExecuteNodeCalls, 1, Len(hist.calls))
    /\ (pc \in BurnPcs \ {"ignition"} => hist.calls = ExecuteNodeCalls)
    /\ (pc \in {"meco", "disengage", "remove", "return"}
           => hist.calls = ExecuteNodeCalls)
    /\ (pc = "wait_poll" =>
           /\ Len(hist.calls) = 5
           /\ burn_ut.err = "none"
           /\ utThreshold = burn_ut.val)

\* C13 happens: execute_node is about to return after all six calls.
C13_Witness == pc = "return" /\ hist.calls = ExecuteNodeCalls

\* The distance between two times.
RDist(a, b) == IF RLt(a, b) THEN RSub(b, a) ELSE RSub(a, b)

\* C14 as stated: when the fine approach pass has ended, ut is within the
\* fine margin, 5 s, of burn_ut; and the autopilot's wait() returned on a
\* converged attitude between the coarse warp and the fine one.
C14_WithinFineMargin ==
    /\ (pc = "wait_eval" /\ burn_ut.err = "none"
           => RLe(RDist(ut, burn_ut.val), R(FineMargin)))
    /\ (pc = "warp" => error = 0 /\ apEngaged)

\* C14, amended: when the fine approach pass has ended, ut is no earlier
\* than 5 s before burn_ut, exactly 5 s before it if the fine pass warped (on
\* a node already due, ut may be any time past burn_ut); and every warp
\* follows an align_to_burn whose wait() returned on a converged attitude, so
\* that the attitude was confirmed between the coarse warp and the fine one.
C14_NotBeforeFineMargin ==
    /\ (pc = "wait_eval"
           => /\ burn_ut.err = "none"
              /\ RLe(RSub(burn_ut.val, R(FineMargin)), ut)
              /\ (hist.lastWarpTo # << >>
                     => ut = RSub(burn_ut.val, R(FineMargin))))
    /\ (pc = "warp"
           => /\ error = 0
              /\ apEngaged
              /\ hist.calls[Len(hist.calls)] = << "align_to_burn" >>)

\* C14 happens: the fine pass warped, after a coarse pass that had warped.
C14_Witness ==
    /\ pc = "wait_eval"
    /\ hist.warps = 2
    /\ hist.lastWarpTo = ut
    /\ error = 0

\* C15: warp_safely_to_burn(margin) warps if and only if ut is strictly
\* below burn_ut - margin, and then to exactly burn_ut - margin; with ut at
\* or past that time it sends no warp command (the message of line 141 goes
\* with the command).
C15_WarpIffBeforeMargin ==
    [][ pc = "warp" /\ pc' \notin {pc, "raised"}
          => LET warp_time ==
                     RSub(burn_ut.val, R(approach_margins[marginIdx]))
             IN  /\ burn_ut.err = "none"
                 /\ (RLt(ut, warp_time)
                        => /\ ut' = warp_time
                           /\ hist'.lastWarpTo = warp_time
                           /\ hist'.warps = hist.warps + 1)
                 /\ (~RLt(ut, warp_time)
                        => /\ ut' = ut
                           /\ hist'.lastWarpTo = << >>
                           /\ hist'.warps = hist.warps
                           /\ hist'.sideEffects = hist.sideEffects) ]_vars

\* C15 happens: the coarse pass found ut exactly 180 s before burn_ut and
\* did not warp.
C15_Witness ==
    /\ pc = "align"
    /\ Len(hist.calls) = 2
    /\ burn_ut.err = "none"
    /\ ut = RSub(burn_ut.val, R(CoarseMargin))
    /\ hist.warps = 0
    /\ hist.lastWarpTo = << >>

\* C15 happens: a pass found ut before its margin and warped to it.
C15_WitnessWarped ==
    /\ pc = "align"
    /\ hist.warps = 1
    /\ hist.lastWarpTo = ut

\* maximum_throttle x clamp(10 x remaining_delta_v / node.delta_v, 0.05, 1)
\* on the readings of the current state (only used where it is defined).
TaperedThrottleNow ==
    RMul(maximum_throttle.val,
         RMax(Rat(5, 100),
              RMin(R(1), RDiv(RMul(R(10), dvLeft), R(nodes[1].delta_v)))))

\* The statements of _burn_loop that write the throttle.
ThrottleWritePcs == {"throttle", "as_zero", "as_restore", "throttle_zero"}

\* C16 as stated: with thrust, Isp and delta_v above zero, every throttle
\* value _burn_loop writes is 0 or maximum_throttle x clamp(10 x
\* remaining_delta_v / delta_v, 0.05, 1) on the readings at the time of the
\* write, and the throttle is within [0, 1].
C16_WritesAreZeroOrTaperNow ==
    [][ /\ ((/\ pc \in ThrottleWritePcs
             /\ pc' \notin {pc, "close_dv", "raised"}
             /\ thrust > 0 /\ isp > 0 /\ has_node /\ nodes[1].delta_v > 0)
               => throttle' = R(0) \/ throttle' = TaperedThrottleNow)
        /\ RLe(R(0), throttle') /\ RLe(throttle', R(1)) ]_vars

\* C16, amended: _throttle_manager writes maximum_throttle x clamp(10 x
\* remaining_delta_v / delta_v, 0.05, 1) on the readings at its write;
\* _auto_stage writes 0 before the activation and afterwards writes again,
\* unchanged, the value _throttle_manager wrote in that iteration (whatever
\* the thrust has become since); the end of _burn_loop writes 0; nothing else
\* writes the throttle, which is always within [0, 1].
C16_WritesAreZeroTaperOrRestore ==
    [][ /\ (pc = "throttle" /\ pc' = "as_ratio"
               => /\ maximum_throttle.err = "none"
                  /\ throttle' = TaperedThrottleNow
                  /\ hist'.iterThrottle = throttle')
        /\ (pc = "as_zero" /\ pc' = "as_activate" => throttle' = R(0))
        /\ (pc = "as_restore" /\ pc' = "as_return"
               => throttle' = hist.iterThrottle)
        /\ (pc = "throttle_zero" /\ pc' = "meco" => throttle' = R(0))
        /\ (throttle' # throttle => pc \in ThrottleWritePcs)
        /\ RLe(R(0), throttle') /\ RLe(throttle', R(1)) ]_vars

\* C16 happens: after a staging that changed the thrust, the throttle is
\* back at the value written before it, no longer the one the present
\* readings give.
C16_Witness ==
    /\ pc = "as_return"
    /\ hist.asActs = 1
    /\ thrust > 0
    /\ maximum_throttle.err = "none"
    /\ throttle = hist.iterThrottle
    /\ RLt(R(0), throttle)
    /\ throttle # TaperedThrottleNow

\* C17 (under PropSpec): the taper, as a function of the ratio r of
\* remaining to initial delta-v, is within [0.05, 1], is 10 r when 10 r lies
\* between 0.05 and 1, is 1 for every r >= 1, is 0.05 for every r <= 0.005
\* (negative r included), and never falls as r rises; with maximum_throttle
\* 1, it is what _throttle_manager writes.
C17_TaperShape ==
    nodes[1].delta_v > 0 =>
        LET r == RDiv(dvLeft, R(nodes[1].delta_v))
            t == Taper(r)
        IN  /\ RLe(Rat(5, 100), t) /\ RLe(t, R(1))
            /\ (RLe(Rat(5, 1000), r) /\ RLe(r, Rat(1, 10))
                   => t = RMul(R(10), r))
            /\ (RLe(R(1), r) => t = R(1))
            /\ (RLe(r, Rat(5, 1000)) => t = Rat(5, 100))
            /\ \A r2 \in TaperRatios : RLe(r, r2) => RLe(t, Taper(r2))
            /\ (pc = "called" /\ minimumBurnTime = 0 => throttle = t)

\* C17 happens: _throttle_manager was called with a twentieth of the
\* delta-v left and wrote half throttle.
C17_Witness ==
    /\ pc = "called"
    /\ minimumBurnTime = 0
    /\ nodes[1].delta_v = 10
    /\ dvLeft = Rat(1, 2)
    /\ throttle = Rat(1, 2)

\* C17 happens: a negative ratio got the floor of the taper.
C17_WitnessNegative ==
    /\ pc = "called"
    /\ minimumBurnTime = 0
    /\ dvLeft = R(-10)
    /\ throttle = Rat(5, 100)

\* C18 (under PropSpec): as a caller reads them, maximum_throttle is
\* min(1, burn_time_at_max_thrust / minimum_burn_time) when
\* minimum_burn_time > 0 and 1 when it is 0, and burn_time is
\* max(burn_time_at_max_thrust, minimum_burn_time); a minimum of twice the
\* burn time at maximum thrust gives maximum_throttle 1/2 and burn_time equal
\* to the minimum.
C18_MaximumThrottleAndBurnTime ==
    pc = "read" =>
        LET bt == hist.props.burn_time_at_max_thrust
            mt == hist.props.maximum_throttle
            mbt == R(minimumBurnTime)
        IN  /\ (minimumBurnTime = 0 => mt = Ok(R(1)))
            /\ (minimumBurnTime > 0 /\ bt.err = "none"
                   => /\ mt.err = "none"
                      /\ mt.val = IF RLt(RDiv(bt.val, mbt), R(1))
                                  THEN RDiv(bt.val, mbt) ELSE R(1))
            /\ (bt.err = "none"
                   => /\ hist.props.burn_time.err = "none"
                      /\ hist.props.burn_time.val =
                            IF RLt(bt.val, mbt) THEN mbt ELSE bt.val)
            /\ (bt.err = "none" /\ RLt(R(0), bt.val)
                  /\ mbt = RMul(R(2), bt.val)
                   => /\ mt.val = Rat(1, 2)
                      /\ hist.props.burn_time.val = mbt)

\* C18 happens: the minimum is twice the burn time at maximum thrust.
C18_Witness ==
    /\ pc = "read"
    /\ hist.props.burn_time_at_max_thrust = Ok(R(1))
    /\ minimumBurnTime = 2
    /\ hist.props.maximum_throttle = Ok(Rat(1, 2))
    /\ hist.props.burn_time = Ok(R(2))

\* C18 happens: the burn at maximum thrust is longer than the minimum.
C18_WitnessLong ==
    /\ pc = "read"
    /\ minimumBurnTime = DefaultMinimumBurnTime
    /\ hist.props.burn_time_at_max_thrust.err = "none"
    /\ RLt(R(DefaultMinimumBurnTime), hist.props.burn_time_at_max_thrust.val)
    /\ hist.props.maximum_throttle = Ok(R(1))

\* C19 (under PropSpec): with thrust and Isp above zero, for every delta_v
\* >= 0 and every minimum_burn_time >= 0, maximum_throttle is above 0 and at
\* most 1, burn_time is at least burn_time_at_max_thrust, and burn_time is
\* minimum_burn_time whenever that is above burn_time_at_max_thrust.
C19_MaximumThrottlePositive ==
    pc = "read" /\ thrust > 0 /\ isp > 0 =>
        LET bt == hist.props.burn_time_at_max_thrust
            mt == hist.props.maximum_throttle
            burn == hist.props.burn_time
            mbt == R(minimumBurnTime)
        IN  /\ bt.err = "none" /\ mt.err = "none" /\ burn.err = "none"
            /\ RLt(R(0), mt.val) /\ RLe(mt.val, R(1))
            /\ RLe(bt.val, burn.val)
            /\ (RLt(bt.val, mbt) => burn.val = mbt)

\* C20 (under PropSpec): burn_ut, as a caller reads it, is the node's ut less
\* half of burn_time: the node's ut is the midpoint of
\* [burn_ut, burn_ut + burn_time].
C20_BurnUtIsHalfBurnTimeEarly ==
    pc = "read" /\ hist.props.burn_time.err = "none" =>
        LET bu == hist.props.burn_ut
            burn == hist.props.burn_time.val
            node_ut == R(nodes[1].ut)
        IN  /\ bu.err = "none"
            /\ RAdd(bu.val, RDiv(burn, R(2))) = node_ut
            /\ RSub(node_ut, bu.val) = RSub(RAdd(bu.val, burn), node_ut)

\* C20 happens: a burn of 4 s on the node at ut 2000 is to start at 1998.
C20_Witness ==
    /\ pc = "read"
    /\ hist.props.burn_time = Ok(R(4))
    /\ hist.props.burn_ut = Ok(R(1998))

\* C21: an error raised by the link at any step of execute_node() reaches
\* the caller as it was raised: from then on the exception in flight is that
\* RPCError, and the program is unwinding to the caller or has arrived there;
\* it never goes on to a normal return.
C21_LinkErrorPropagates ==
    /\ hist.linkFailed =>
          /\ exc = "RPCError"
          /\ pc \in {"close_dv", "close_err", "raised"}
    /\ exc # "none" => pc \in {"close_dv", "close_err", "raised"}

\* A link error inside the burn loop has reached the caller.
C21_Witness ==
    /\ pc = "raised"
    /\ hist.linkFailed
    /\ exc = "RPCError"
    /\ dvStream = "closed"
    /\ errStream = "closed"

\* A link error during cleanup has reached the caller.
C21_WitnessCleanup ==
    /\ pc = "raised"
    /\ hist.linkFailed
    /\ exc = "RPCError"
    /\ hist.loopReturned
    /\ hist.disengages = 1

\* C22: NodeExecutor(minimum_burn_time) with a negative argument raises
\* AssertionError; NodeExecutor() sets minimum_burn_time to 4 and any other
\* accepted argument is kept; node is the first entry of the vessel's node
\* list, or None when the list is empty; has_node is true exactly when the
\* list is not empty.
C22_Constructor ==
    /\ (hist.ctor # << >> /\ ~hist.linkFailed) =>
          LET args == hist.ctor[1]
          IN  /\ (args # << >> /\ args[1] < 0) =>
                    (pc = "raised" /\ exc = "AssertionError")
              /\ (args = << >>) =>
                    (pc # "raised" /\ minimumBurnTime = 4)
              /\ (args # << >> /\ args[1] >= 0) =>
                    (pc # "raised" /\ minimumBurnTime = args[1])
    /\ pc = "read" =>
          /\ hist.props.has_node = (Len(nodes) > 0)
          /\ hist.props.node =
                IF Len(nodes) = 0 THEN << >> ELSE << Head(nodes) >>

\* A negative argument was refused.
C22_Witness ==
    /\ pc = "raised"
    /\ exc = "AssertionError"
    /\ hist.ctor = << << -10 >> >>

\* A NodeExecutor built without an argument on a queue of two nodes had its
\* node and has_node read.
C22_WitnessRead ==
    /\ pc = "read"
    /\ hist.ctor = << << >> >>
    /\ minimumBurnTime = 4
    /\ Len(nodes) = 2
    /\ hist.props.has_node
    /\ hist.props.node = << nodes[1] >>

\* An executor on an empty queue had node read as None.
C22_WitnessNone ==
    /\ pc = "read"
    /\ nodes = << >>
    /\ ~hist.props.has_node
    /\ hist.props.node = << >>

\* C23: the thrust baseline of auto-staging changes only at loop entry and
\* at stage events: inside the burn loop, a step that changes the baseline is
\* the read at loop entry or the return of an _auto_stage call that
\* activated a stage.
C23_BaselineMovesOnlyOnEntryOrStaging ==
    [][ (availableThrust' # availableThrust /\ pc' \in LoopPcs) =>
           (pc = "read_thrust" \/ hist.asActs > 0) ]_vars

\* C24: when the available thrust has fallen to zero during the burn loop
\* and a further stage exists, the controller goes on to activate it: no step
\* of the loop raises an error of the program's own (the link staying up),
\* wherever in the iteration the fall came.
C24_ThrustLossNeverRaises ==
    [][ (/\ pc \in LoopPcs
         /\ thrust = 0
         /\ hist.thrustMoved
         /\ stagesLeft > 0) => exc' \in {"none", "RPCError"} ]_vars

C25_WitnessEntry ==
    /\ pc = "check"
    /\ hist.iterSteps = << >>
    /\ availableThrust > 0

\* C26: on leaving the burn loop by its loop test the throttle is set to 0
\* first, before either subscription is closed: while a subscription is
\* being closed on that way out the throttle is already 0, and when the
\* final throttle write is about to happen both subscriptions are still open.
C26_ThrottleZeroBeforeClose ==
    /\ (pc \in {"close_dv", "close_err"} /\ exc = "none") =>
          RIsZero(throttle)
    /\ pc = "throttle_zero" =>
          (dvStream = "open" /\ errStream = "open")

\* C27: the burn loop does not run for ever once the thrust is exhausted
\* with no stage left: from any point of the loop with available thrust 0
\* and no further stage, the loop is eventually left, and that without the
\* attitude error having to rise above 20 degrees.
C27_LoopExitsOnExhaustedThrust ==
    (pc \in LoopPcs /\ thrust = 0 /\ stagesLeft = 0)
        ~> (pc \notin LoopPcs \/ error > AbortThreshold)

\* ------------------------------------------------- a planner in parallel
\* A fourth specification: a planning script (HohmannTransfer.add_nodes)
\* runs in parallel with NodeExecutor and adds a node while execute_node()
\* is at work on one.
PlannerPcs == ApproachPcs \cup BurnPcs \cup {"meco", "disengage", "remove"}

\* An id no node of the queue or of the current call has.
FreshId ==
    CHOOSE i \in 1..(2 * MaxNodes + 2) :
        i \notin { nodes[k].id : k \in 1..Len(nodes) } \cup hist.nodesUsed

\* control.add_node(ut, prograde): the game keeps the queue in time order,
\* so a node timed between now and the first node's time becomes nodes[0],
\* and one timed after the last node is appended.  The open stream stays on
\* the node it was opened on.
planner_add ==
    /\ pc \in PlannerPcs
    /\ hist.planned < MaxPlans
    /\ Len(nodes) > 0
    /\ \E earlier \in BOOLEAN :
          IF earlier
          THEN /\ RLe(ut, R(nodes[1].ut - 1))
               /\ nodes' = << [id |-> FreshId, ut |-> nodes[1].ut - 1,
                                delta_v |-> 10] >> \o nodes
          ELSE nodes' = Append(nodes,
                               [id |-> FreshId,
                                ut |-> nodes[Len(nodes)].ut + 1000,
                                delta_v |-> 10])
    /\ hist' = [hist EXCEPT !.planned = @ + 1]
    /\ UNCHANGED << ut, thrust, isp, error, dvLeft, stagesLeft, actuators,
                    streams, pc, locals, exc >>

\* One node of 10 m/s to begin with, on a vessel that has thrust, and a call
\* made before the node's time.
PlanInit ==
    /\ Init
    /\ Len(nodes) = 1
    /\ nodes[1].delta_v > 0
    /\ thrust > 0
    /\ RLt(ut, R(NodeUt))

PlanNext == Next \/ planner_add

PlanSpec == PlanInit /\ [][PlanNext]_vars

\* C28: throughout one execute_node() call every operation refers to the
\* same node, whatever a planner in parallel adds: the node aligned to and
\* timed, the node whose remaining_delta_v is streamed, the node whose
\* delta_v scales the taper and the node removed are one node, the one that
\* was first when the call began.
C28_OneNodePerCall ==
    /\ Cardinality(hist.nodesUsed) <= 1
    /\ \A i \in 1..Len(hist.removed) : hist.removed[i] = hist.firstNode

\* C29: when an error leaves the body of the burn loop, both subscriptions
\* are closed on its way to the caller, and the throttle-zero command, the
\* disengage and the node removal are skipped: the throttle keeps the value
\* last commanded, the autopilot stays engaged and the node stays queued.
C29_LoopErrorSkipsCleanup ==
    hist.loopExc # << >> =>
       /\ pc \in {"close_dv", "close_err", "raised"}
       /\ exc # "none"
       /\ throttle = hist.loopExc[1]
       /\ apEngaged
       /\ nodes = hist.loopExc[3]
       /\ has_node
       /\ ~hist.loopReturned
       /\ hist.disengages = 0
       /\ hist.removed = << >>
       /\ pc = "raised" => (dvStream = "closed" /\ errStream = "closed")

\* A division by zero in mid-burn has reached the caller with the throttle
\* still open.
C29_Witness ==
    /\ pc = "raised"
    /\ hist.loopExc # << >>
    /\ exc = "ZeroDivisionError"
    /\ RLt(R(0), throttle)
    /\ apEngaged
    /\ dvStream = "closed"

\* A failed request in mid-burn has reached the caller.
C29_WitnessLink ==
    /\ pc = "raised"
    /\ hist.loopExc # << >>
    /\ exc = "RPCError"
    /\ RLt(R(0), throttle)
    /\ Len(nodes) = 2

\* C30: when the first loop test of a burn reads an attitude error above
\* 20 degrees, the loop body never runs: the loop writes no throttle and
\* activates no stage, the throttle is written once, the final 0, and
\* burn_baby_burn goes on to disengage the autopilot and remove the node,
\* whose delta-v is all still to do; nothing but a failure of the link keeps
\* the call from that.
C30_EntryAbortConsumesNode ==
    hist.entryHigh =>
       /\ pc \notin LoopPcs
       /\ ~hist.loopWrites
       /\ ~hist.staged
       /\ hist.removed = << >> =>
             (has_node /\ hist.exitDv = R(nodes[1].delta_v))
       /\ pc \in {"meco", "disengage", "remove", "return"} =>
             RIsZero(throttle)
       /\ pc = "return" =>
             /\ hist.removed = << hist.firstNode >>
             /\ hist.disengages = 1
             /\ ~apEngaged
       /\ exc \in {"none", "RPCError"}

\* C31: executing a node whose delta_v is 0 on a vessel with thrust and
\* specific impulse above 0 raises no error of the program's own (a failure
\* of the link apart): every throttle computation is defined for it.
C31_ZeroNodeNeverRaises ==
    (has_node /\ nodes[1].delta_v = 0 /\ thrust > 0 /\ isp > 0) =>
       exc \in {"none", "RPCError"}

\* C32: the loop test ends the burn loop exactly when the attitude error it
\* reads is strictly above 20 degrees: on an error of 20 or less the loop
\* body runs, whatever remaining delta-v, thrust and time are, and on an
\* error above 20 the loop is left, whatever they are.
C32_ExitIffErrorAboveTwenty ==
    [][ pc = "check" =>
          /\ pc' \in {"close_dv", "throttle"}
          /\ (pc' = "close_dv") = (error > 20) ]_vars

\* The loop test is about to read an error of exactly 20 with no delta-v
\* and no thrust left.
C32_Witness ==
    /\ pc = "check"
    /\ error = 20
    /\ RIsZero(dvLeft)
    /\ thrust = 0
    /\ hist.loopWrites

\* The loop test has ended a loop with delta-v and thrust left.
C32_WitnessExit ==
    /\ pc = "close_dv"
    /\ exc = "none"
    /\ error = 25
    /\ RLt(R(0), dvLeft)
    /\ thrust > 0
    /\ hist.loopWrites

\* C33 as claimed: each pass through the loop body suspends exactly once,
\* for 10 ms, at its end: nothing sleeps before the end of the pass, and the
\* loop test that follows a pass finds one sleep of 10 ms behind it.
C33_OneSleepPerIteration ==
    /\ pc \in LoopPcs \ {"check"} => hist.iterSleeps = << >>
    /\ (pc = "check" /\ hist.iterSteps # << >>) =>
          hist.iterSleeps = << Rat(1, 100) >>

\* C33, amended: each pass through the loop body ends with one sleep of
\* 10 ms, the last thing before the next loop test; a pass that does not
\* stage sleeps nowhere else, and a pass that stages sleeps twice more, for
\* 0.1 s each, inside _auto_stage: after the throttle is zeroed and after
\* the stage is activated.
C33_OneSleepPlusStagingSleeps ==
    /\ pc \in {"throttle", "as_ratio", "as_zero"} => hist.iterSleeps = << >>
    /\ pc \in {"as_activate", "as_restore"} =>
          hist.iterSleeps = << Rat(1, 10) >>
    /\ pc \in {"as_return", "sleep"} =>
          hist.iterSleeps = IF hist.asActs > 0
                            THEN << Rat(1, 10), Rat(1, 10) >> ELSE << >>
    /\ pc = "check" =>
          hist.iterSleeps =
             IF hist.iterSteps = << >> THEN << >>
             ELSE IF hist.asActs > 0
                  THEN << Rat(1, 10), Rat(1, 10), Rat(1, 100) >>
                  ELSE << Rat(1, 100) >>

\* A pass that did not stage is over: one sleep of 10 ms.
C33_Witness ==
    /\ pc = "check"
    /\ hist.iterSteps # << >>
    /\ hist.asActs = 0
    /\ hist.iterSleeps = << Rat(1, 100) >>

\* A pass that staged is over: three sleeps.
C33_WitnessStaged ==
    /\ pc = "check"
    /\ hist.asActs = 1
    /\ Len(hist.iterSleeps) = 3

\* C34: align_to_burn sets the autopilot's reference frame to the frame of
\* the node, the target direction to (0, 1, 0) and the roll to NaN before it
\* calls engage(); it calls wait() after engage() and returns only when
\* wait() has returned, the vessel pointing at the target.
C34_AlignSetsTargetEngagesWaits ==
    LET target == << nodes[1].id, << 0, 1, 0 >>, "nan" >>
    IN  /\ pc = "engage" =>
              (has_node /\ apTarget = target /\ hist.apCalls = << >>)
        /\ pc = "apwait" =>
              /\ has_node
              /\ apTarget = target
              /\ apEngaged
              /\ hist.apCalls = << "engage" >>
        /\ pc = "warp" =>
              /\ has_node
              /\ apTarget = target
              /\ apEngaged
              /\ hist.apCalls = << "engage", "wait" >>
              /\ error = 0

\* The second align_to_burn of a call has returned.
C34_Witness ==
    /\ pc = "warp"
    /\ marginIdx = 2
    /\ hist.apCalls = << "engage", "wait" >>
    /\ apEngaged
    /\ Len(nodes) = 2

C35_WitnessZero ==
    /\ pc = "read"
    /\ thrust > 0
    /\ nodes[1].delta_v = 0
    /\ hist.props.burn_time_at_max_thrust = Ok(R(0))

=============================================================================
